---- MODULE Spec2Model ----
(***************************************************************************)
(* Hotel.py: the in-memory management layer (GestorHotel), the relational  *)
(* store adapter (DatabaseManager) and the interactive loop (main).        *)
(*                                                                         *)
(* Python objects are heap cells.  A room, a client and a reservation are  *)
(* identified by their position in habObj, cliObj and resObj; the three    *)
(* registries of GestorHotel and Cliente.reservas hold such references.    *)
(* A room taken out of the room registry stays in the heap while a         *)
(* reservation refers to it.                                               *)
(*                                                                         *)
(* Two specifications:                                                     *)
(*   Spec       any caller of the GestorHotel methods                      *)
(*   ShellSpec  main(): the menu loop that mirrors each accepted change    *)
(*              into the store                                             *)
(***************************************************************************)
EXTENDS Integers, Sequences, FiniteSets, TLC

\* ------------------------------------------------------------- bounds
MaxHabitaciones == 2
MaxClientes == 2
MaxReservas == 3
\* objects constructed in one run, of all three kinds together
MaxObjetos == 5
\* objects constructed in one run of main
MaxObjetosMain == 4
MaxFecha == 2

\* ------------------------------------------------------------- inputs
\* Precios, Nombres and Apellidos are the values the update calls ask for;
\* the constructors get theirs from HabitacionesNuevas and ClientesNuevos
Numeros == {101, 102}
Dpis == {"CF1", "CF2"}
Precios == {150}
Nombres == {"Eva"}
Apellidos == {"Lopez"}
Fechas == 1..MaxFecha
\* the labels the three subclasses of Habitacion pass to the base constructor
\* ("Estandar" stands for the accented label of the source)
Tipos == {"Estandar", "Suite", "Deluxe"}

VARIABLES
    habObj,        \* heap of Habitacion objects
    cliObj,        \* heap of Cliente objects
    resObj,        \* heap of Reserva objects
    habitaciones,  \* GestorHotel.habitaciones: references into habObj
    clientes,      \* GestorHotel.clientes: references into cliObj
    reservas,      \* GestorHotel.reservas: references into resObj
    ret,           \* the last call and what it returned
    ocupadas,      \* rooms booked and not released by a cancellation since
    pc,            \* main(): "inicio" before the try, "menu" at a prompt of the
                   \* main menu or of a submenu, "fin" after the finally clause
    conn,          \* DatabaseManager.conn
    dbHabitaciones,\* rows of table habitaciones
    dbClientes,    \* rows of table clientes
    dbReservas,    \* rows of table reservas, in id order
    aperturas,     \* connections opened so far
    intentos,      \* store writes attempted by the last command
    fallo          \* the store write that raised sqlite3.Error, if any

gestorVars == <<habObj, cliObj, resObj, habitaciones, clientes, reservas>>

storeVars == <<dbHabitaciones, dbClientes, dbReservas>>

shellVars == <<pc, conn, dbHabitaciones, dbClientes, dbReservas, aperturas, intentos, fallo>>

\* ------------------------------------------------------------- entities
Habitacion(numero, tipo, precio_por_noche) ==
    [numero |-> numero, tipo |-> tipo,
     precio_por_noche |-> precio_por_noche, disponible |-> TRUE]

HabitacionEstandar(numero, precio_por_noche) ==
    Habitacion(numero, "Estandar", precio_por_noche)

HabitacionSuite(numero, precio_por_noche) ==
    Habitacion(numero, "Suite", precio_por_noche)

HabitacionDeluxe(numero, precio_por_noche) ==
    Habitacion(numero, "Deluxe", precio_por_noche)

Cliente(nombres, apellidos, dpi) ==
    [nombres |-> nombres, apellidos |-> apellidos, dpi |-> dpi,
     reservas |-> <<>>]

\* cliente and habitacion are references (heap positions)
Reserva(cliente, habitacion, fecha_entrada, fecha_salida) ==
    [cliente |-> cliente, habitacion |-> habitacion,
     fecha_entrada |-> fecha_entrada, fecha_salida |-> fecha_salida,
     estado |-> "Activa"]

\* the objects the callers construct: two rooms may carry one number and two
\* clients one dpi, since nothing in the constructors or the registries
\* forbids it
HabitacionesNuevas ==
    {HabitacionEstandar(101, 100), HabitacionSuite(101, 150),
     HabitacionDeluxe(102, 100)}

ClientesNuevos ==
    {Cliente("Ana", "Lopez", "CF1"), Cliente("Eva", "Lopez", "CF2")}

\* the stays asked for: a check-out may precede its check-in
Estancias == {e \in Fechas \X Fechas : e[1] # e[2]}

\* ------------------------------------------------------------- GestorHotel
\* The object graph reachable from a GestorHotel, as one value.
GestorHotel ==
    [habObj |-> <<>>, cliObj |-> <<>>, resObj |-> <<>>,
     habitaciones |-> <<>>, clientes |-> <<>>, reservas |-> <<>>]

gestor ==
    [habObj |-> habObj, cliObj |-> cliObj, resObj |-> resObj,
     habitaciones |-> habitaciones, clientes |-> clientes,
     reservas |-> reservas]

\* position of the first room of the registry with this number, 0 if none
PrimeraHabitacion(g, numero) ==
    LET hit == {i \in 1..Len(g.habitaciones) :
                   g.habObj[g.habitaciones[i]].numero = numero}
    IN IF hit = {} THEN 0 ELSE CHOOSE i \in hit : \A j \in hit : i <= j

\* position of the first client of the registry with this dpi, 0 if none
PrimerCliente(g, dpi) ==
    LET hit == {i \in 1..Len(g.clientes) :
                   g.cliObj[g.clientes[i]].dpi = dpi}
    IN IF hit = {} THEN 0 ELSE CHOOSE i \in hit : \A j \in hit : i <= j

\* the test of the reservation scans: reserva.cliente.dpi and
\* reserva.habitacion.numero are read through the references
CoincideReserva(g, r, cliente_dpi, numero_habitacion) ==
    /\ g.cliObj[g.resObj[r].cliente].dpi = cliente_dpi
    /\ g.habObj[g.resObj[r].habitacion].numero = numero_habitacion

\* position of the first matching reservation of the registry, 0 if none
PrimeraReserva(g, cliente_dpi, numero_habitacion) ==
    LET hit == {i \in 1..Len(g.reservas) :
                   CoincideReserva(g, g.reservas[i], cliente_dpi, numero_habitacion)}
    IN IF hit = {} THEN 0 ELSE CHOOSE i \in hit : \A j \in hit : i <= j

\* habitacion is a newly constructed object: it gets the next heap cell
agregar_habitacion(g, habitacion) ==
    [g EXCEPT !.habObj = Append(@, habitacion),
              !.habitaciones = Append(@, Len(g.habObj) + 1)]

\* modificar_habitacion that writes the last room with the number
modificar_habitacion_ultima(g, numero, nuevo_precio) ==
    LET hit == {i \in 1..Len(g.habitaciones) :
                   g.habObj[g.habitaciones[i]].numero = numero}
    IN IF hit = {}
       THEN [ok |-> FALSE, g |-> g]
       ELSE LET i == CHOOSE k \in hit : \A j \in hit : j <= k
            IN [ok |-> TRUE,
                g |-> [g EXCEPT !.habObj[g.habitaciones[i]].precio_por_noche = nuevo_precio]]

modificar_habitacion(g, numero, nuevo_precio) ==
    LET i == PrimeraHabitacion(g, numero)
    IN IF i = 0
       THEN [ok |-> FALSE, g |-> g]
       ELSE [ok |-> TRUE,
             g |-> [g EXCEPT !.habObj[g.habitaciones[i]].precio_por_noche = nuevo_precio]]

\* eliminar_habitacion that drops only the first room with the number
eliminar_habitacion_primera(g, numero) ==
    LET i == PrimeraHabitacion(g, numero)
    IN IF i = 0
       THEN g
       ELSE [g EXCEPT !.habitaciones =
                [k \in 1..(Len(@) - 1) |-> IF k < i THEN @[k] ELSE @[k + 1]]]

eliminar_habitacion(g, numero) ==
    [g EXCEPT !.habitaciones =
        SelectSeq(@, LAMBDA h : g.habObj[h].numero # numero)]

\* cliente is a newly constructed object: it gets the next heap cell
registrar_cliente(g, cliente) ==
    [g EXCEPT !.cliObj = Append(@, cliente),
              !.clientes = Append(@, Len(g.cliObj) + 1)]

actualizar_cliente(g, dpi, nuevos_nombres, nuevos_apellidos) ==
    LET i == PrimerCliente(g, dpi)
    IN IF i = 0
       THEN [ok |-> FALSE, g |-> g]
       ELSE [ok |-> TRUE,
             g |-> [g EXCEPT !.cliObj[g.clientes[i]].nombres = nuevos_nombres,
                             !.cliObj[g.clientes[i]].apellidos = nuevos_apellidos]]

\* crear_reserva that puts the reservation at the front of the registry
crear_reserva_al_frente(g, reserva) ==
    IF g.habObj[reserva.habitacion].disponible
    THEN LET r == Len(g.resObj) + 1
         IN [ok |-> TRUE,
             g |-> [g EXCEPT !.habObj[reserva.habitacion].disponible = FALSE,
                             !.resObj = Append(@, reserva),
                             !.reservas = <<r>> \o @,
                             !.cliObj[reserva.cliente].reservas = Append(@, r)]]
    ELSE [ok |-> FALSE, g |-> g]

\* crear_reserva that forgets the client's own sequence
crear_reserva_sin_cliente(g, reserva) ==
    IF g.habObj[reserva.habitacion].disponible
    THEN LET r == Len(g.resObj) + 1
         IN [ok |-> TRUE,
             g |-> [g EXCEPT !.habObj[reserva.habitacion].disponible = FALSE,
                             !.resObj = Append(@, reserva),
                             !.reservas = Append(@, r)]]
    ELSE [ok |-> FALSE, g |-> g]

\* crear_reserva that does not look at the availability of the room
crear_reserva_sin_guarda(g, reserva) ==
    LET r == Len(g.resObj) + 1
    IN [ok |-> TRUE,
        g |-> [g EXCEPT !.habObj[reserva.habitacion].disponible = FALSE,
                        !.resObj = Append(@, reserva),
                        !.reservas = Append(@, r),
                        !.cliObj[reserva.cliente].reservas = Append(@, r)]]

\* reserva is a newly constructed object: it gets a heap cell when a
\* registry keeps it
crear_reserva(g, reserva) ==
    IF g.habObj[reserva.habitacion].disponible
    THEN LET r == Len(g.resObj) + 1
         IN [ok |-> TRUE,
             g |-> [g EXCEPT !.habObj[reserva.habitacion].disponible = FALSE,
                             !.resObj = Append(@, reserva),
                             !.reservas = Append(@, r),
                             !.cliObj[reserva.cliente].reservas = Append(@, r)]]
    ELSE [ok |-> FALSE, g |-> g]

\* modificar_reserva that refuses a reservation that is not Activa
modificar_reserva_solo_activa(g, cliente_dpi, numero_habitacion, nueva_fecha_entrada, nueva_fecha_salida) ==
    LET i == PrimeraReserva(g, cliente_dpi, numero_habitacion)
    IN IF i = 0 \/ g.resObj[g.reservas[IF i = 0 THEN 1 ELSE i]].estado # "Activa"
       THEN [ok |-> FALSE, g |-> g]
       ELSE [ok |-> TRUE,
             g |-> [g EXCEPT !.resObj[g.reservas[i]].fecha_entrada = nueva_fecha_entrada,
                             !.resObj[g.reservas[i]].fecha_salida = nueva_fecha_salida]]

\* modificar_reserva that makes the reservation Activa again
modificar_reserva_reactiva(g, cliente_dpi, numero_habitacion, nueva_fecha_entrada, nueva_fecha_salida) ==
    LET i == PrimeraReserva(g, cliente_dpi, numero_habitacion)
    IN IF i = 0
       THEN [ok |-> FALSE, g |-> g]
       ELSE [ok |-> TRUE,
             g |-> [g EXCEPT !.resObj[g.reservas[i]].fecha_entrada = nueva_fecha_entrada,
                             !.resObj[g.reservas[i]].fecha_salida = nueva_fecha_salida,
                             !.resObj[g.reservas[i]].estado = "Activa"]]

modificar_reserva(g, cliente_dpi, numero_habitacion, nueva_fecha_entrada, nueva_fecha_salida) ==
    LET i == PrimeraReserva(g, cliente_dpi, numero_habitacion)
    IN IF i = 0
       THEN [ok |-> FALSE, g |-> g]
       ELSE [ok |-> TRUE,
             g |-> [g EXCEPT !.resObj[g.reservas[i]].fecha_entrada = nueva_fecha_entrada,
                             !.resObj[g.reservas[i]].fecha_salida = nueva_fecha_salida]]

\* cancelar_reserva that cancels the last matching reservation
cancelar_reserva_ultima(g, cliente_dpi, numero_habitacion) ==
    LET hit == {i \in 1..Len(g.reservas) :
                   CoincideReserva(g, g.reservas[i], cliente_dpi, numero_habitacion)}
    IN IF hit = {}
       THEN [ok |-> FALSE, g |-> g]
       ELSE LET r == g.reservas[CHOOSE k \in hit : \A j \in hit : j <= k]
            IN [ok |-> TRUE,
                g |-> [g EXCEPT !.resObj[r].estado = "Cancelada",
                                !.habObj[g.resObj[r].habitacion].disponible = TRUE]]

\* cancelar_reserva that leaves the room as it was
cancelar_reserva_sin_liberar(g, cliente_dpi, numero_habitacion) ==
    LET i == PrimeraReserva(g, cliente_dpi, numero_habitacion)
    IN IF i = 0
       THEN [ok |-> FALSE, g |-> g]
       ELSE [ok |-> TRUE,
             g |-> [g EXCEPT !.resObj[g.reservas[i]].estado = "Cancelada"]]

\* cancelar_reserva that cancels every matching reservation, not the first
cancelar_reserva_todas(g, cliente_dpi, numero_habitacion) ==
    LET i == PrimeraReserva(g, cliente_dpi, numero_habitacion)
    IN IF i = 0
       THEN [ok |-> FALSE, g |-> g]
       ELSE [ok |-> TRUE,
             g |-> [g EXCEPT
                !.resObj = [r \in DOMAIN g.resObj |->
                    IF CoincideReserva(g, r, cliente_dpi, numero_habitacion)
                    THEN [g.resObj[r] EXCEPT !.estado = "Cancelada"]
                    ELSE g.resObj[r]],
                !.habObj[g.resObj[g.reservas[i]].habitacion].disponible = TRUE]]

\* cancelar_reserva that refuses a reservation that is not Activa
cancelar_reserva_solo_activa(g, cliente_dpi, numero_habitacion) ==
    LET i == PrimeraReserva(g, cliente_dpi, numero_habitacion)
    IN IF i = 0 \/ g.resObj[g.reservas[IF i = 0 THEN 1 ELSE i]].estado # "Activa"
       THEN [ok |-> FALSE, g |-> g]
       ELSE LET r == g.reservas[i]
            IN [ok |-> TRUE,
                g |-> [g EXCEPT !.resObj[r].estado = "Cancelada",
                                !.habObj[g.resObj[r].habitacion].disponible = TRUE]]

cancelar_reserva(g, cliente_dpi, numero_habitacion) ==
    LET i == PrimeraReserva(g, cliente_dpi, numero_habitacion)
    IN IF i = 0
       THEN [ok |-> FALSE, g |-> g]
       ELSE LET r == g.reservas[i]
            IN [ok |-> TRUE,
                g |-> [g EXCEPT !.resObj[r].estado = "Cancelada",
                                !.habObj[g.resObj[r].habitacion].disponible = TRUE]]

\* consultar_disponibilidad that answers only for a range in calendar order
consultar_disponibilidad_por_fechas(g, fecha_inicio, fecha_fin) ==
    IF fecha_inicio < fecha_fin
    THEN SelectSeq(g.habitaciones, LAMBDA h : g.habObj[h].disponible)
    ELSE <<>>

\* the rooms returned, as references in registry order; the dates are unused
consultar_disponibilidad(g, fecha_inicio, fecha_fin) ==
    SelectSeq(g.habitaciones, LAMBDA h : g.habObj[h].disponible)

\* a reference, or 0 for None
obtener_cliente(g, dpi) ==
    LET i == PrimerCliente(g, dpi)
    IN IF i = 0 THEN 0 ELSE g.clientes[i]

\* a reference, or 0 for None
obtener_habitacion(g, numero) ==
    LET i == PrimeraHabitacion(g, numero)
    IN IF i = 0 THEN 0 ELSE g.habitaciones[i]

\* ------------------------------------------------------------- DatabaseManager
\* The store is the file hotel.db; a run starts on a store without rows.
\* The three tables, as one value.
store ==
    [habitaciones |-> dbHabitaciones, clientes |-> dbClientes,
     reservas |-> dbReservas]

\* int(habitacion.disponible)
int(b) == IF b THEN 1 ELSE 0

\* datetime.isoformat() of a datetime that strptime("%Y-%m-%d") made: the
\* date, then the time of day, which is midnight
isoformat(fecha) == <<fecha, "T00:00:00">>

\* conn after sqlite3.connect returned
conectar == "abierta"

\* desconectar that leaves the connection as it is
desconectar_nada(c) == c

\* conn stays None when conectar raised
desconectar(c) == IF c # "None" THEN "cerrada" ELSE c

\* Every write is one execute and one commit. A write returns whether it
\* went through (ok) and the tables it leaves; the writes the model lets
\* raise sqlite3.Error are the inserts that break a PRIMARY KEY, and the row
\* is then not written.
insertar_habitacion(db, habitacion) ==
    IF \E f \in db.habitaciones : f.numero = habitacion.numero
    THEN [ok |-> FALSE, db |-> db]
    ELSE [ok |-> TRUE,
          db |-> [db EXCEPT !.habitaciones = @ \cup
                    {[numero |-> habitacion.numero, tipo |-> habitacion.tipo,
                      precio_por_noche |-> habitacion.precio_por_noche,
                      disponible |-> int(habitacion.disponible)]}]]

actualizar_habitacion(db, habitacion) ==
    [ok |-> TRUE,
          db |-> [db EXCEPT !.habitaciones =
                    {IF f.numero = habitacion.numero
                     THEN [numero |-> f.numero, tipo |-> habitacion.tipo,
                           precio_por_noche |-> habitacion.precio_por_noche,
                           disponible |-> int(habitacion.disponible)]
                     ELSE f : f \in @}]]

db_eliminar_habitacion(db, numero) ==
    [ok |-> TRUE,
          db |-> [db EXCEPT !.habitaciones = {f \in @ : f.numero # numero}]]

insertar_cliente(db, cliente) ==
    IF \E f \in db.clientes : f.dpi = cliente.dpi
    THEN [ok |-> FALSE, db |-> db]
    ELSE [ok |-> TRUE,
          db |-> [db EXCEPT !.clientes = @ \cup
                    {[dpi |-> cliente.dpi, nombres |-> cliente.nombres,
                      apellidos |-> cliente.apellidos]}]]

db_actualizar_cliente(db, cliente) ==
    [ok |-> TRUE,
          db |-> [db EXCEPT !.clientes =
                    {IF f.dpi = cliente.dpi
                     THEN [dpi |-> f.dpi, nombres |-> cliente.nombres,
                           apellidos |-> cliente.apellidos]
                     ELSE f : f \in @}]]

\* the row of reservation object r of g; the foreign keys are declared and
\* not enforced (no PRAGMA foreign_keys), the id is the position
FilaReserva(g, r) ==
    [cliente_dpi |-> g.cliObj[g.resObj[r].cliente].dpi,
     habitacion_numero |-> g.habObj[g.resObj[r].habitacion].numero,
     fecha_entrada |-> isoformat(g.resObj[r].fecha_entrada),
     fecha_salida |-> isoformat(g.resObj[r].fecha_salida),
     estado |-> g.resObj[r].estado]

insertar_reserva(db, g, r) ==
    [ok |-> TRUE,
          db |-> [db EXCEPT !.reservas = Append(@, FilaReserva(g, r))]]

\* UPDATE ... WHERE cliente_dpi = ? AND habitacion_numero = ?: every row of
\* the pair is written
actualizar_reserva(db, g, r) ==
    [ok |-> TRUE,
          db |-> [db EXCEPT !.reservas =
                    [i \in DOMAIN @ |->
                       IF /\ @[i].cliente_dpi = FilaReserva(g, r).cliente_dpi
                          /\ @[i].habitacion_numero = FilaReserva(g, r).habitacion_numero
                       THEN [@[i] EXCEPT
                               !.fecha_entrada = FilaReserva(g, r).fecha_entrada,
                               !.fecha_salida = FilaReserva(g, r).fecha_salida,
                               !.estado = FilaReserva(g, r).estado]
                       ELSE @[i]]]]

\* ------------------------------------------------------------- calls
SetGestor(g) ==
    /\ habObj' = g.habObj
    /\ cliObj' = g.cliObj
    /\ resObj' = g.resObj
    /\ habitaciones' = g.habitaciones
    /\ clientes' = g.clientes
    /\ reservas' = g.reservas

NoCall == [op |-> "none", ok |-> TRUE]

\* cli, hab, dpi and numero name the arguments at the call sites only
Call(op, ok, cli, hab, dpi, numero) == [op |-> op, ok |-> ok]

Objetos == Len(habObj) + Len(cliObj) + Len(resObj)

\* the room a successful cancelar_reserva(dpi, numero) makes available
HabitacionLiberada(g, dpi, numero) ==
    g.resObj[g.reservas[PrimeraReserva(g, dpi, numero)]].habitacion

AgregarHabitacion(habitacion) ==
    /\ Len(habObj) < MaxHabitaciones
    /\ Objetos < MaxObjetos
    /\ SetGestor(agregar_habitacion(gestor, habitacion))
    /\ ret' = Call("agregar_habitacion", TRUE, 0, Len(habObj) + 1, "", habitacion.numero)
    /\ UNCHANGED ocupadas
    /\ UNCHANGED shellVars

ModificarHabitacion(numero, nuevo_precio) ==
    LET c == modificar_habitacion(gestor, numero, nuevo_precio)
    IN /\ SetGestor(c.g)
       /\ ret' = Call("modificar_habitacion", c.ok, 0, 0, "", numero)
       /\ UNCHANGED ocupadas
       /\ UNCHANGED shellVars

EliminarHabitacion(numero) ==
    /\ SetGestor(eliminar_habitacion(gestor, numero))
    /\ ret' = Call("eliminar_habitacion", TRUE, 0, 0, "", numero)
    /\ UNCHANGED ocupadas
    /\ UNCHANGED shellVars

RegistrarCliente(cliente) ==
    /\ Len(cliObj) < MaxClientes
    /\ Objetos < MaxObjetos
    /\ SetGestor(registrar_cliente(gestor, cliente))
    /\ ret' = Call("registrar_cliente", TRUE, Len(cliObj) + 1, 0, cliente.dpi, 0)
    /\ UNCHANGED ocupadas
    /\ UNCHANGED shellVars

ActualizarCliente(dpi, nuevos_nombres, nuevos_apellidos) ==
    LET c == actualizar_cliente(gestor, dpi, nuevos_nombres, nuevos_apellidos)
    IN /\ SetGestor(c.g)
       /\ ret' = Call("actualizar_cliente", c.ok, 0, 0, dpi, 0)
       /\ UNCHANGED ocupadas
       /\ UNCHANGED shellVars

\* the caller holds references to a client and a room it constructed before,
\* whether or not they are (still) in the registries
CrearReserva(cliente, habitacion, fecha_entrada, fecha_salida) ==
    LET c == crear_reserva(gestor, Reserva(cliente, habitacion, fecha_entrada, fecha_salida))
    IN /\ Len(resObj) < MaxReservas
       /\ Objetos < MaxObjetos
       /\ SetGestor(c.g)
       /\ ret' = Call("crear_reserva", c.ok, cliente, habitacion, "", 0)
       /\ ocupadas' = IF c.ok THEN ocupadas \cup {habitacion} ELSE ocupadas
       /\ UNCHANGED shellVars

ModificarReserva(cliente_dpi, numero_habitacion, nueva_fecha_entrada, nueva_fecha_salida) ==
    LET c == modificar_reserva(gestor, cliente_dpi, numero_habitacion,
                               nueva_fecha_entrada, nueva_fecha_salida)
    IN /\ SetGestor(c.g)
       /\ ret' = Call("modificar_reserva", c.ok, 0, 0, cliente_dpi, numero_habitacion)
       /\ UNCHANGED ocupadas
       /\ UNCHANGED shellVars

CancelarReserva(cliente_dpi, numero_habitacion) ==
    LET c == cancelar_reserva(gestor, cliente_dpi, numero_habitacion)
    IN /\ SetGestor(c.g)
       /\ ret' = Call("cancelar_reserva", c.ok, 0, 0, cliente_dpi, numero_habitacion)
       /\ ocupadas' = IF c.ok
                      THEN ocupadas \ {HabitacionLiberada(gestor, cliente_dpi, numero_habitacion)}
                      ELSE ocupadas
       /\ UNCHANGED shellVars

\* a query: the list returned is kept in ret.val, nothing else is written
ConsultarDisponibilidad(fecha_inicio, fecha_fin) ==
    /\ ret' = [op |-> "consultar_disponibilidad", ok |-> TRUE,
               val |-> consultar_disponibilidad(gestor, fecha_inicio, fecha_fin)]
    /\ UNCHANGED <<gestorVars, ocupadas>>
    /\ UNCHANGED shellVars

\* ------------------------------------------------------------- main
SinFallo == [op |-> "ninguno", ref |-> 0]

\* what the prompts of "Registrar nueva habitacion" are answered with:
\* numero, tipo ("4" is not a type) and precio
EntradasHabitacion ==
    {<<101, "1", 100>>, <<101, "2", 150>>, <<102, "3", 100>>, <<102, "4", 100>>}

SetStore(db) ==
    /\ dbHabitaciones' = db.habitaciones
    /\ dbClientes' = db.clientes
    /\ dbReservas' = db.reservas

\* the finally clause: the connection c is released and main returns
Finally(c) ==
    /\ conn' = desconectar(c)
    /\ pc' = "fin"

\* an except clause that swallows the error and goes on with the loop
ErrorDeBase_sigue(c) ==
    /\ conn' = c
    /\ pc' = pc

\* sqlite3.Error leaves the loop: the except clause prints, then the finally
ErrorDeBase(c) == Finally(c)

\* the command made no store write
SinEscritura ==
    /\ intentos' = 0
    /\ UNCHANGED <<pc, conn, dbHabitaciones, dbClientes, dbReservas, fallo>>

\* the command made the store write w (op, for object ref) after the
\* management layer accepted the change
Escritura(w, op, ref) ==
    /\ intentos' = 1
    /\ IF w.ok
       THEN /\ SetStore(w.db)
            /\ UNCHANGED <<pc, conn, fallo>>
       ELSE /\ UNCHANGED storeVars
            /\ ErrorDeBase(conn)
            /\ fallo' = [op |-> op, ref |-> ref]

\* conectar, then crear_tablas, then the first menu
Arrancar(fallaConectar, fallaTablas) ==
    /\ pc = "inicio"
    /\ UNCHANGED <<gestorVars, ret, ocupadas, storeVars, intentos>>
    /\ IF fallaConectar
       THEN /\ ErrorDeBase(conn)
            /\ fallo' = [op |-> "conectar", ref |-> 0]
            /\ UNCHANGED aperturas
       ELSE /\ aperturas' = aperturas + 1
            /\ IF fallaTablas
               THEN /\ ErrorDeBase(conectar)
                    /\ fallo' = [op |-> "crear_tablas", ref |-> 0]
               ELSE /\ conn' = conectar
                    /\ pc' = "menu"
                    /\ UNCHANGED fallo

ShRegistrarHabitacion(numero, tipo, precio) ==
    /\ pc = "menu"
    /\ UNCHANGED <<ocupadas, aperturas>>
    /\ IF tipo \notin {"1", "2", "3"}
       THEN /\ ret' = Call("registrar_habitacion", FALSE, 0, 0, "", numero)
            /\ UNCHANGED gestorVars
            /\ SinEscritura
       ELSE LET habitacion == CASE tipo = "1" -> HabitacionEstandar(numero, precio)
                                [] tipo = "2" -> HabitacionSuite(numero, precio)
                                [] tipo = "3" -> HabitacionDeluxe(numero, precio)
            IN /\ Len(habObj) < MaxHabitaciones
               /\ Objetos < MaxObjetosMain
               /\ SetGestor(agregar_habitacion(gestor, habitacion))
               /\ ret' = Call("registrar_habitacion", TRUE, 0, 0, "", numero)
               /\ Escritura(insertar_habitacion(store, habitacion),
                            "insertar_habitacion", Len(habObj) + 1)

ShModificarHabitacion(numero, nuevo_precio) ==
    LET c == modificar_habitacion(gestor, numero, nuevo_precio)
        habitacion == obtener_habitacion(c.g, numero)
    IN /\ pc = "menu"
       /\ UNCHANGED <<ocupadas, aperturas>>
       /\ SetGestor(c.g)
       /\ ret' = Call("modificar_habitacion", c.ok, 0, 0, "", numero)
       /\ IF c.ok /\ habitacion # 0
          THEN Escritura(actualizar_habitacion(store, c.g.habObj[habitacion]),
                         "actualizar_habitacion", habitacion)
          ELSE SinEscritura

ShEliminarHabitacion(numero) ==
    /\ pc = "menu"
    /\ UNCHANGED <<ocupadas, aperturas>>
    /\ SetGestor(eliminar_habitacion(gestor, numero))
    /\ ret' = Call("eliminar_habitacion", TRUE, 0, 0, "", numero)
    /\ Escritura(db_eliminar_habitacion(store, numero), "eliminar_habitacion", 0)

ShRegistrarCliente(cliente) ==
    /\ pc = "menu"
    /\ UNCHANGED <<ocupadas, aperturas>>
    /\ Len(cliObj) < MaxClientes
    /\ Objetos < MaxObjetosMain
    /\ SetGestor(registrar_cliente(gestor, cliente))
    /\ ret' = Call("registrar_cliente", TRUE, 0, 0, cliente.dpi, 0)
    /\ Escritura(insertar_cliente(store, cliente),
                 "insertar_cliente", Len(cliObj) + 1)

ShActualizarCliente(dpi, nuevos_nombres, nuevos_apellidos) ==
    LET c == actualizar_cliente(gestor, dpi, nuevos_nombres, nuevos_apellidos)
        cliente == obtener_cliente(c.g, dpi)
    IN /\ pc = "menu"
       /\ UNCHANGED <<ocupadas, aperturas>>
       /\ SetGestor(c.g)
       /\ ret' = Call("actualizar_cliente", c.ok, 0, 0, dpi, 0)
       /\ IF c.ok /\ cliente # 0
          THEN Escritura(db_actualizar_cliente(store, c.g.cliObj[cliente]),
                         "actualizar_cliente", cliente)
          ELSE SinEscritura

ShRealizarReserva(dpi_cliente, numero_habitacion, fecha_entrada, fecha_salida) ==
    LET cliente == obtener_cliente(gestor, dpi_cliente)
        habitacion == obtener_habitacion(gestor, numero_habitacion)
    IN /\ pc = "menu"
       /\ UNCHANGED aperturas
       /\ IF cliente # 0 /\ habitacion # 0
          THEN LET c == crear_reserva(gestor,
                           Reserva(cliente, habitacion, fecha_entrada, fecha_salida))
               IN /\ Len(resObj) < MaxReservas
                  /\ Objetos < MaxObjetosMain
                  /\ SetGestor(c.g)
                  /\ ret' = Call("crear_reserva", c.ok, cliente, habitacion, "", 0)
                  /\ ocupadas' = IF c.ok THEN ocupadas \cup {habitacion} ELSE ocupadas
                  /\ IF c.ok
                     THEN Escritura(insertar_reserva(store, c.g, Len(c.g.resObj)),
                                    "insertar_reserva", Len(c.g.resObj))
                     ELSE SinEscritura
          ELSE /\ ret' = Call("realizar_reserva", FALSE, 0, 0, dpi_cliente, numero_habitacion)
               /\ UNCHANGED <<gestorVars, ocupadas>>
               /\ SinEscritura

\* the loop over gestor.reservas after a successful call: the first match
PrimeraCoincidencia(g, dpi_cliente, numero_habitacion) ==
    g.reservas[PrimeraReserva(g, dpi_cliente, numero_habitacion)]

ShModificarReserva(dpi_cliente, numero_habitacion, nueva_fecha_entrada, nueva_fecha_salida) ==
    LET c == modificar_reserva(gestor, dpi_cliente, numero_habitacion,
                               nueva_fecha_entrada, nueva_fecha_salida)
    IN /\ pc = "menu"
       /\ UNCHANGED <<ocupadas, aperturas>>
       /\ SetGestor(c.g)
       /\ ret' = Call("modificar_reserva", c.ok, 0, 0, dpi_cliente, numero_habitacion)
       /\ IF c.ok
          THEN Escritura(actualizar_reserva(store, c.g,
                            PrimeraCoincidencia(c.g, dpi_cliente, numero_habitacion)),
                         "actualizar_reserva",
                         PrimeraCoincidencia(c.g, dpi_cliente, numero_habitacion))
          ELSE SinEscritura

ShCancelarReserva(dpi_cliente, numero_habitacion) ==
    LET c == cancelar_reserva(gestor, dpi_cliente, numero_habitacion)
    IN /\ pc = "menu"
       /\ UNCHANGED aperturas
       /\ SetGestor(c.g)
       /\ ret' = Call("cancelar_reserva", c.ok, 0, 0, dpi_cliente, numero_habitacion)
       /\ ocupadas' = IF c.ok
                      THEN ocupadas \ {HabitacionLiberada(gestor, dpi_cliente, numero_habitacion)}
                      ELSE ocupadas
       /\ IF c.ok
          THEN Escritura(actualizar_reserva(store, c.g,
                            PrimeraCoincidencia(c.g, dpi_cliente, numero_habitacion)),
                         "actualizar_reserva",
                         PrimeraCoincidencia(c.g, dpi_cliente, numero_habitacion))
          ELSE SinEscritura

\* option 6 of the main menu: break, then the finally clause
Salir ==
    /\ pc = "menu"
    /\ Finally(conn)
    /\ ret' = Call("salir", TRUE, 0, 0, "", 0)
    /\ UNCHANGED <<gestorVars, ocupadas, storeVars, aperturas, intentos, fallo>>

\* int(), float() or strptime() raises ValueError on what was typed: no
\* except clause takes it, the finally clause runs and main ends.
ErrorDeEntrada ==
    /\ pc = "menu"
    /\ Finally(conn)
    /\ ret' = Call("error_de_entrada", FALSE, 0, 0, "", 0)
    /\ UNCHANGED <<gestorVars, ocupadas, storeVars, aperturas, intentos, fallo>>

vars == <<habObj, cliObj, resObj, habitaciones, clientes, reservas, ret, ocupadas,
          pc, conn, dbHabitaciones, dbClientes, dbReservas, aperturas, intentos, fallo>>

Init ==
    /\ habObj = GestorHotel.habObj
    /\ cliObj = GestorHotel.cliObj
    /\ resObj = GestorHotel.resObj
    /\ habitaciones = GestorHotel.habitaciones
    /\ clientes = GestorHotel.clientes
    /\ reservas = GestorHotel.reservas
    /\ ret = NoCall
    /\ ocupadas = {}
    /\ pc = "inicio"
    /\ conn = "None"
    /\ dbHabitaciones = {}
    /\ dbClientes = {}
    /\ dbReservas = <<>>
    /\ aperturas = 0
    /\ intentos = 0
    /\ fallo = SinFallo

Next ==
    \/ \E h \in HabitacionesNuevas : AgregarHabitacion(h)
    \/ \E n \in Numeros, p \in Precios : ModificarHabitacion(n, p)
    \/ \E n \in Numeros : EliminarHabitacion(n)
    \/ \E c \in ClientesNuevos : RegistrarCliente(c)
    \/ \E d \in Dpis, no \in Nombres, ap \in Apellidos : ActualizarCliente(d, no, ap)
    \/ \E c \in DOMAIN cliObj, h \in DOMAIN habObj, e \in Estancias :
          CrearReserva(c, h, e[1], e[2])
    \/ \E d \in Dpis, n \in Numeros, e \in Estancias :
          ModificarReserva(d, n, e[1], e[2])
    \/ \E d \in Dpis, n \in Numeros : CancelarReserva(d, n)
    \/ \E e \in Estancias : ConsultarDisponibilidad(e[1], e[2])

Spec == Init /\ [][Next]_vars

ShellNext ==
    \/ \E fc \in BOOLEAN, ft \in BOOLEAN : Arrancar(fc, ft)
    \/ \E e \in EntradasHabitacion :
          ShRegistrarHabitacion(e[1], e[2], e[3])
    \/ \E n \in Numeros, p \in Precios : ShModificarHabitacion(n, p)
    \/ \E n \in Numeros : ShEliminarHabitacion(n)
    \/ \E c \in ClientesNuevos : ShRegistrarCliente(c)
    \/ \E d \in Dpis, no \in Nombres, ap \in Apellidos :
          ShActualizarCliente(d, no, ap)
    \/ \E d \in Dpis, n \in Numeros, e \in Estancias :
          ShRealizarReserva(d, n, e[1], e[2])
    \/ \E d \in Dpis, n \in Numeros, e \in Estancias :
          ShModificarReserva(d, n, e[1], e[2])
    \/ \E d \in Dpis, n \in Numeros : ShCancelarReserva(d, n)
    \/ Salir
    \/ ErrorDeEntrada

ShellSpec == Init /\ [][ShellNext]_vars

\* ------------------------------------------------------------- helpers of the claims
\* the reservations of the registry bound to room object h with status Activa
ActivasDe(h) ==
    {i \in 1..Len(reservas) :
        /\ resObj[reservas[i]].habitacion = h
        /\ resObj[reservas[i]].estado = "Activa"}

\* the step is a call of crear_reserva, of cancelar_reserva
EsCrearReserva == ret'.op = "crear_reserva"

EsCancelarReserva == ret'.op = "cancelar_reserva"

\* ------------------------------------------------------------- C1
\* C1: in every reachable state every room has at most one reservation of
\* the registry that is bound to it and has status Activa.
C1_UnaActivaPorHabitacion ==
    \A h \in DOMAIN habObj : Cardinality(ActivasDe(h)) <= 1

\* ------------------------------------------------------------- C2
\* C2: right after a successful crear_reserva on room r, r is not
\* available; and a later cancelar_reserva(c.dpi, r.numero) that returns
\* success leaves r available, for every reservation (c, r) booked before.
C2_CancelarLiberaLaHabitacion ==
    [][/\ \A c \in DOMAIN cliObj, h \in DOMAIN habObj, e \in Estancias :
             EsCrearReserva /\ CrearReserva(c, h, e[1], e[2]) /\ ret'.ok =>
                ~habObj'[h].disponible
       /\ \A d \in Dpis, n \in Numeros :
             EsCancelarReserva /\ CancelarReserva(d, n) /\ ret'.ok =>
                \A i \in 1..Len(reservas) :
                   CoincideReserva(gestor, reservas[i], d, n) =>
                      habObj'[resObj[reservas[i]].habitacion].disponible]_vars

\* ------------------------------------------------------------- C3
\* C3: crear_reserva returns success exactly when the room of the
\* reservation is available at the call; on success the room becomes
\* unavailable, the reservation is the new last element of the registry and
\* of its client's sequence, and nothing else changes; on failure nothing
\* changes.
C3_CrearReserva ==
    [][\A c \in DOMAIN cliObj, h \in DOMAIN habObj, e \in Estancias :
          EsCrearReserva /\ CrearReserva(c, h, e[1], e[2]) =>
             /\ ret'.ok = habObj[h].disponible
             /\ ~ret'.ok => UNCHANGED gestorVars
             /\ ret'.ok =>
                   LET r == reservas'[Len(reservas')]
                   IN /\ habObj' = [habObj EXCEPT ![h].disponible = FALSE]
                      /\ Len(reservas') = Len(reservas) + 1
                      /\ SubSeq(reservas', 1, Len(reservas)) = reservas
                      /\ r \notin DOMAIN resObj
                      /\ DOMAIN resObj' = DOMAIN resObj \cup {r}
                      /\ \A q \in DOMAIN resObj : resObj'[q] = resObj[q]
                      /\ resObj'[r] = [cliente |-> c, habitacion |-> h,
                                       fecha_entrada |-> e[1], fecha_salida |-> e[2],
                                       estado |-> "Activa"]
                      /\ cliObj' = [cliObj EXCEPT ![c].reservas = Append(@, r)]
                      /\ UNCHANGED <<habitaciones, clientes>>]_vars

\* a booking has just succeeded for a client that had a reservation already
C3_Witness ==
    /\ ret.op = "crear_reserva"
    /\ ret.ok
    /\ Len(reservas) >= 2
    /\ Len(cliObj[resObj[reservas[Len(reservas)]].cliente].reservas) >= 2

\* ------------------------------------------------------------- C4
\* C4: crear_reserva on a room that was booked and has not been made
\* available by a cancellation since returns failure and changes nothing.
C4_SegundaReservaRechazada ==
    [][\A c \in DOMAIN cliObj, h \in DOMAIN habObj, e \in Estancias :
          EsCrearReserva /\ h \in ocupadas /\ CrearReserva(c, h, e[1], e[2]) =>
             /\ ~ret'.ok
             /\ UNCHANGED gestorVars]_vars

\* a booking has just been refused while a room is held
C4_Witness ==
    /\ ret.op = "crear_reserva"
    /\ ~ret.ok
    /\ ocupadas # {}
    /\ \E h \in ocupadas : ~habObj[h].disponible

\* ------------------------------------------------------------- C9
\* C9: a cancelar_reserva that returns success sets the status of the first
\* matching reservation to Cancelada and the availability of its room to
\* true, and changes nothing else: no registry, no client's sequence, no
\* date.
C9_CancelarSoloCambiaEstadoYDisponible ==
    [][\A d \in Dpis, n \in Numeros :
          EsCancelarReserva /\ ret'.ok /\ CancelarReserva(d, n) =>
             LET r == reservas[PrimeraReserva(gestor, d, n)]
             IN /\ resObj' = [resObj EXCEPT ![r].estado = "Cancelada"]
                /\ habObj' = [habObj EXCEPT ![resObj[r].habitacion].disponible = TRUE]
                /\ UNCHANGED <<cliObj, habitaciones, clientes, reservas>>]_vars

\* a cancellation has just succeeded while a later reservation of the same
\* client and room number is still Activa
C9_Witness ==
    /\ ret.op = "cancelar_reserva"
    /\ ret.ok
    /\ \E i, j \in 1..Len(reservas) :
          /\ i < j
          /\ resObj[reservas[i]].estado = "Cancelada"
          /\ resObj[reservas[j]].estado = "Activa"
          /\ cliObj[resObj[reservas[i]].cliente].dpi = cliObj[resObj[reservas[j]].cliente].dpi
          /\ habObj[resObj[reservas[i]].habitacion].numero = habObj[resObj[reservas[j]].habitacion].numero

\* ------------------------------------------------------------- C10
\* C10: cancelar_reserva whose first match is already Cancelada returns
\* success, leaves every reservation, registry and client as it was and
\* writes at most the availability of the bound room, to true; and a second
\* cancelar_reserva with the same arguments right after a successful one
\* returns success and leaves the state the first call left.
C10_CancelarDosVeces ==
    [][\A d \in Dpis, n \in Numeros :
          EsCancelarReserva /\ CancelarReserva(d, n) =>
             /\ ( /\ PrimeraReserva(gestor, d, n) # 0
                  /\ resObj[reservas[PrimeraReserva(gestor, d, n)]].estado = "Cancelada" ) =>
                   /\ ret'.ok
                   /\ UNCHANGED <<resObj, cliObj, habitaciones, clientes, reservas>>
                   /\ habObj' = [habObj EXCEPT
                         ![HabitacionLiberada(gestor, d, n)].disponible = TRUE]
             /\ ret'.ok =>
                   /\ cancelar_reserva(gestor', d, n).ok
                   /\ cancelar_reserva(gestor', d, n).g = gestor']_vars

\* a cancellation has just hit an already cancelled reservation and made
\* available a room that a later, still Activa, reservation holds
C10_Witness ==
    /\ ret.op = "cancelar_reserva"
    /\ ret.ok
    /\ \E h \in DOMAIN habObj : habObj[h].disponible /\ ActivasDe(h) # {}
\* ------------------------------------------------------------- C5
\* the last command of main is over and no store write has raised
SinErrorDeBase == pc # "inicio" /\ fallo = SinFallo

\* C5: after every command that ends without a store error, each room of
\* the room registry has a row in table habitaciones with its number, type,
\* price and availability (0/1).
C5_HabitacionesReflejadas ==
    SinErrorDeBase =>
       \A i \in 1..Len(habitaciones) :
          [numero |-> habObj[habitaciones[i]].numero,
           tipo |-> habObj[habitaciones[i]].tipo,
           precio_por_noche |-> habObj[habitaciones[i]].precio_por_noche,
           disponible |-> IF habObj[habitaciones[i]].disponible THEN 1 ELSE 0]
             \in dbHabitaciones

\* ------------------------------------------------------------- C6
\* C6: after every command that ends without a store error, the rows of
\* table reservas in id order match the reservation registry in insertion
\* order on client dpi, room number, both dates and status.
C6_ReservasReflejadas ==
    SinErrorDeBase =>
       /\ Len(dbReservas) = Len(reservas)
       /\ \A i \in 1..Len(reservas) :
             LET r == resObj[reservas[i]]
             IN /\ dbReservas[i].cliente_dpi = cliObj[r.cliente].dpi
                /\ dbReservas[i].habitacion_numero = habObj[r.habitacion].numero
                /\ dbReservas[i].fecha_entrada = <<r.fecha_entrada, "T00:00:00">>
                /\ dbReservas[i].fecha_salida = <<r.fecha_salida, "T00:00:00">>
                /\ dbReservas[i].estado = r.estado

\* ------------------------------------------------------------- C7
\* C7: the connection is opened at most once, and once before any command;
\* every step after the start is taken with the connection open, so no
\* command and no store write comes after the close; and however the loop
\* ends (exit, store error, parse failure) the connection that was opened
\* is closed.
C7_ConexionUnaVez ==
    /\ [](/\ aperturas <= 1
          /\ pc = "menu" => aperturas = 1 /\ conn = "abierta"
          /\ pc = "fin" => conn # "abierta"
          /\ pc = "fin" /\ aperturas = 1 => conn = "cerrada")
    /\ [][/\ pc # "inicio" => conn = "abierta" /\ aperturas = 1
          /\ aperturas' # aperturas => pc = "inicio"
          /\ conn # "abierta" /\ pc # "inicio" => UNCHANGED storeVars]_vars

\* the loop has ended on a parse failure after a booking, and the
\* connection is closed
C7_Witness ==
    /\ pc = "fin"
    /\ ret.op = "error_de_entrada"
    /\ conn = "cerrada"
    /\ aperturas = 1
    /\ Len(reservas) >= 1

\* ------------------------------------------------------------- C8
\* a mirrored store write has raised
EscrituraFallida(f) ==
    f.op \in {"insertar_habitacion", "actualizar_habitacion", "eliminar_habitacion",
              "insertar_cliente", "actualizar_cliente",
              "insertar_reserva", "actualizar_reserva"}

\* C8: when a mirrored store write raises, it was attempted once and left
\* the tables as they were, no step of main follows, main has ended with
\* the connection closed, and the registry keeps the entry the management
\* layer had accepted.
C8_ErrorDeBaseTerminaLaSesion ==
    /\ [](EscrituraFallida(fallo) =>
             /\ pc = "fin"
             /\ conn = "cerrada"
             /\ intentos = 1
             /\ fallo.op = "insertar_habitacion" =>
                   \E i \in 1..Len(habitaciones) : habitaciones[i] = fallo.ref
             /\ fallo.op = "insertar_cliente" =>
                   \E i \in 1..Len(clientes) : clientes[i] = fallo.ref
             /\ fallo.op = "insertar_reserva" =>
                   \E i \in 1..Len(reservas) : reservas[i] = fallo.ref)
    /\ [][/\ ~EscrituraFallida(fallo)
          /\ EscrituraFallida(fallo') => UNCHANGED storeVars]_vars

\* the insert of a second room with a number the store already has has
\* raised: both rooms are in the registry, one row is in the table
C8_Witness ==
    /\ fallo.op = "insertar_habitacion"
    /\ pc = "fin"
    /\ Len(habitaciones) = 2
    /\ habObj[habitaciones[1]].numero = habObj[habitaciones[2]].numero
    /\ Cardinality(dbHabitaciones) = 1
\* ------------------------------------------------------------- C11
EsModificarReserva == ret'.op = "modificar_reserva"

\* C11: modificar_reserva returns failure exactly when no reservation of
\* the registry has the (client dpi, room number) pair, and then nothing of
\* the state changes.
C11_ModificarReservaSinCoincidencia ==
    [][\A d \in Dpis, n \in Numeros, e \in Estancias :
          EsModificarReserva /\ ModificarReserva(d, n, e[1], e[2]) =>
             /\ ~ret'.ok <=>
                   ~\E i \in 1..Len(reservas) :
                       /\ cliObj[resObj[reservas[i]].cliente].dpi = d
                       /\ habObj[resObj[reservas[i]].habitacion].numero = n
             /\ ~ret'.ok => UNCHANGED <<gestorVars, ocupadas>>]_vars

\* a change of dates has just been refused while the registry holds
\* reservations, one of them Cancelada, of other pairs
C11_Witness ==
    /\ ret.op = "modificar_reserva"
    /\ ~ret.ok
    /\ \E i \in 1..Len(reservas) : resObj[reservas[i]].estado = "Cancelada"

\* ------------------------------------------------------------- C12
EsModificarHabitacion == ret'.op = "modificar_habitacion"

\* C12: modificar_habitacion(n, p) returns failure exactly when no room of
\* the registry has number n; after a success obtener_habitacion(n) is a
\* room whose price is p, also when several rooms carry the number.
C12_ModificarHabitacion ==
    [][\A n \in Numeros, p \in Precios :
          EsModificarHabitacion /\ ModificarHabitacion(n, p) =>
             /\ ~ret'.ok <=>
                   ~\E i \in 1..Len(habitaciones) : habObj[habitaciones[i]].numero = n
             /\ ret'.ok =>
                   /\ obtener_habitacion(gestor', n) # 0
                   /\ habObj'[obtener_habitacion(gestor', n)].numero = n
                   /\ habObj'[obtener_habitacion(gestor', n)].precio_por_noche = p]_vars

\* a price has just been changed while two rooms of the registry carry one
\* number: the first, built at 100, now costs 150
C12_Witness ==
    /\ ret.op = "modificar_habitacion"
    /\ ret.ok
    /\ Len(habitaciones) = 2
    /\ habObj[habitaciones[1]].numero = habObj[habitaciones[2]].numero
    /\ habObj[habitaciones[1]].tipo = "Estandar"
    /\ habObj[habitaciones[1]].precio_por_noche = 150
\* ------------------------------------------------------------- C13
EsConsultarDisponibilidad == ret'.op = "consultar_disponibilidad"

RECURSIVE DisponiblesEnOrden(_)
\* the rooms of a list of references that are available, order kept
DisponiblesEnOrden(hs) ==
    IF hs = <<>>
    THEN <<>>
    ELSE IF habObj[Head(hs)].disponible
         THEN <<Head(hs)>> \o DisponiblesEnOrden(Tail(hs))
         ELSE DisponiblesEnOrden(Tail(hs))

\* C13: consultar_disponibilidad returns exactly the rooms of the registry
\* whose disponible is true, in registry order, whatever the two dates are
\* (so any two date ranges give the same list), and the call changes no state.
C13_ConsultarDisponibilidad ==
    [][\A e \in Estancias :
          EsConsultarDisponibilidad /\ ConsultarDisponibilidad(e[1], e[2]) =>
             /\ ret'.val = DisponiblesEnOrden(habitaciones)
             /\ \A f \in Estancias :
                   consultar_disponibilidad(gestor, f[1], f[2]) = ret'.val
             /\ UNCHANGED <<gestorVars, ocupadas, shellVars>>]_vars

\* a query has just answered with one room while the registry holds two,
\* the first of them booked
C13_Witness ==
    /\ ret.op = "consultar_disponibilidad"
    /\ Len(habitaciones) = 2
    /\ ~habObj[habitaciones[1]].disponible
    /\ ret.val = <<habitaciones[2]>>

\* ------------------------------------------------------------- C14
EsEliminarHabitacion == ret'.op = "eliminar_habitacion"

RECURSIVE SinNumero(_, _)
\* a list of room references without the rooms of one number, order kept
SinNumero(hs, n) ==
    IF hs = <<>>
    THEN <<>>
    ELSE IF habObj[Head(hs)].numero = n
         THEN SinNumero(Tail(hs), n)
         ELSE <<Head(hs)>> \o SinNumero(Tail(hs), n)

\* C14: after eliminar_habitacion(n) no room with number n is left in the
\* registry, the other rooms keep their relative order, and the clients, the
\* reservations and every object (so the estado of every reservation, also
\* of those bound to a removed room) are unchanged; when no room has number
\* n the whole state is unchanged.
C14_EliminarHabitacion ==
    [][\A n \in Numeros :
          EsEliminarHabitacion /\ EliminarHabitacion(n) =>
             /\ \A i \in 1..Len(habitaciones') : habObj'[habitaciones'[i]].numero # n
             /\ habitaciones' = SinNumero(habitaciones, n)
             /\ UNCHANGED <<habObj, cliObj, resObj, clientes, reservas, ocupadas>>
             /\ (\A i \in 1..Len(habitaciones) : habObj[habitaciones[i]].numero # n)
                   => UNCHANGED gestorVars]_vars

\* a removal has just emptied a registry that held two rooms of one number,
\* and an Activa reservation is still bound to a removed room
C14_Witness ==
    /\ ret.op = "eliminar_habitacion"
    /\ habitaciones = <<>>
    /\ Len(habObj) >= 2
    /\ habObj[1].numero = habObj[2].numero
    /\ \E i \in 1..Len(reservas) : resObj[reservas[i]].estado = "Activa"
\* ------------------------------------------------------------- C15
\* C15: no two rooms of the room registry have the same number.
C15_NumerosUnicos ==
    \A i, j \in 1..Len(habitaciones) :
        habObj[habitaciones[i]].numero = habObj[habitaciones[j]].numero => i = j

\* ------------------------------------------------------------- C16
\* C16: every row of the stored reservations table refers to existing rows:
\* its habitacion_numero is the numero of a stored room row and its
\* cliente_dpi is the dpi of a stored client row.
C16_ReservasRefierenAFilas ==
    \A k \in 1..Len(dbReservas) :
        /\ \E f \in dbHabitaciones : f.numero = dbReservas[k].habitacion_numero
        /\ \E f \in dbClientes : f.dpi = dbReservas[k].cliente_dpi
\* ------------------------------------------------------------- C17
\* reservations i and j of the registry have one (client dpi, room number)
MismoPar(i, j) ==
    /\ cliObj[resObj[reservas[i]].cliente].dpi = cliObj[resObj[reservas[j]].cliente].dpi
    /\ habObj[resObj[reservas[i]].habitacion].numero
          = habObj[resObj[reservas[j]].habitacion].numero

\* the entries of the registry that come after an entry of the same pair
Posteriores == {j \in 1..Len(reservas) : \E i \in 1..(j - 1) : MismoPar(i, j)}

\* C17: when two reservations of the registry share the (client dpi, room
\* number) pair, modificar_reserva and cancelar_reserva only ever change the
\* earlier one: the later one has the estado it was booked with (Activa),
\* and no step changes its dates, its estado or its place in the registry.
C17_SoloLaPrimeraCoincidencia ==
    /\ [](\A j \in Posteriores : resObj[reservas[j]].estado = "Activa")
    /\ [][\A j \in Posteriores :
             /\ reservas'[j] = reservas[j]
             /\ resObj'[reservas[j]] = resObj[reservas[j]]]_vars

\* the registry holds exactly two reservations, of one pair; the earlier is
\* Cancelada and has just had its dates changed, the later differs in them
C17_Witness ==
    /\ ret.op = "modificar_reserva"
    /\ ret.ok
    /\ Len(reservas) = 2
    /\ Posteriores = {2}
    /\ resObj[reservas[1]].estado = "Cancelada"
    /\ resObj[reservas[1]].fecha_entrada # resObj[reservas[2]].fecha_entrada

\* ------------------------------------------------------------- C18
\* C18: every room whose disponible is false has at least one reservation
\* of the registry bound to it with estado Activa.
C18_OcupadaTieneActiva ==
    \A h \in DOMAIN habObj : ~habObj[h].disponible => ActivasDe(h) # {}

\* a room is unavailable and the registry holds a Cancelada and an Activa
\* reservation of it
C18_Witness ==
    \E h \in DOMAIN habObj :
        /\ ~habObj[h].disponible
        /\ ActivasDe(h) # {}
        /\ \E i \in 1..Len(reservas) :
              /\ resObj[reservas[i]].habitacion = h
              /\ resObj[reservas[i]].estado = "Cancelada"

\* ------------------------------------------------------------- C19
RECURSIVE ReservasDe(_, _)
\* a list of reservation references restricted to client object c, order kept
ReservasDe(rs, c) ==
    IF rs = <<>>
    THEN <<>>
    ELSE IF resObj[Head(rs)].cliente = c
         THEN <<Head(rs)>> \o ReservasDe(Tail(rs), c)
         ELSE ReservasDe(Tail(rs), c)

\* C19: the own sequence of every client equals the reservation registry
\* restricted to the reservations of that client, in the same order; and
\* the registry is append-only: every step keeps its entries in place.
C19_ReservasDelCliente ==
    /\ [](\A c \in DOMAIN cliObj : cliObj[c].reservas = ReservasDe(reservas, c))
    /\ [][/\ Len(reservas') >= Len(reservas)
          /\ \A i \in 1..Len(reservas) : reservas'[i] = reservas[i]]_vars

\* two reservations of two clients: each client holds one of them, the
\* registry both, and the second has just been booked
C19_Witness ==
    /\ ret.op = "crear_reserva"
    /\ ret.ok
    /\ Len(reservas) = 2
    /\ resObj[reservas[1]].cliente # resObj[reservas[2]].cliente
    /\ cliObj[resObj[reservas[1]].cliente].reservas = <<reservas[1]>>
    /\ cliObj[resObj[reservas[2]].cliente].reservas = <<reservas[2]>>

\* ------------------------------------------------------------- C20
\* C20: the estado of a reservation is Activa when it is booked, is always
\* Activa or Cancelada, and once Cancelada stays Cancelada; its cliente and
\* habitacion references never change.
C20_EstadoSoloAvanza ==
    /\ [](\A r \in DOMAIN resObj : resObj[r].estado \in {"Activa", "Cancelada"})
    /\ [][/\ DOMAIN resObj \subseteq DOMAIN resObj'
          /\ \A r \in DOMAIN resObj :
                /\ resObj'[r].cliente = resObj[r].cliente
                /\ resObj'[r].habitacion = resObj[r].habitacion
                /\ resObj[r].estado = "Cancelada" => resObj'[r].estado = "Cancelada"
          /\ \A r \in DOMAIN resObj' \ DOMAIN resObj :
                resObj'[r].estado = "Activa"]_vars

\* the only reservation is Cancelada and has just had its dates changed
C20_Witness ==
    /\ ret.op = "modificar_reserva"
    /\ ret.ok
    /\ Len(reservas) = 1
    /\ resObj[reservas[1]].estado = "Cancelada"

====
